---- MODULE Spec2Model ----
(***************************************************************************)
(* Model of the time-series operations exercised by the notebook           *)
(* "01 - Time series data in pandas": construction of a DatetimeIndex,     *)
(* lookup by label / position / partial string, shift, and resample        *)
(* followed by sum or linear interpolation.                                *)
(*                                                                         *)
(* Time is counted in ticks of six hours since 1970-01-01 00:00, the       *)
(* finest frequency the notebook resamples to.  Values are exact           *)
(* rationals [nan, num, den]; nan = TRUE is the missing marker (NaN).      *)
(***************************************************************************)
EXTENDS Integers, Sequences, FiniteSets, TLC

(* ---------------------------------------------------------------------- *)
(* Bounds of the model                                                     *)
(* ---------------------------------------------------------------------- *)
MaxLen == 3
MaxShift == 2
MaxChain == 2

(* ---------------------------------------------------------------------- *)
(* Frequencies used by the notebook, as tick widths                        *)
(* ---------------------------------------------------------------------- *)
TicksPerDay == 4
Freq6h == 1
Freq12h == 2 * Freq6h
Freq1d == TicksPerDay
Freq3d == 3 * TicksPerDay
Freq7d == 7 * TicksPerDay

(* ---------------------------------------------------------------------- *)
(* Calendar: pd.Timestamp field accessors and partial-string parsing       *)
(* ---------------------------------------------------------------------- *)
IsLeap(y) == (y % 4 = 0 /\ y % 100 # 0) \/ y % 400 = 0

DaysInMonth(y, m) ==
    IF m = 2 THEN (IF IsLeap(y) THEN 29 ELSE 28)
    ELSE IF m \in {4, 6, 9, 11} THEN 30 ELSE 31

\* days since 1970-01-01 of the civil date y-m-d (proleptic Gregorian)
DaysFromCivil(y, m, d) ==
    LET yy  == IF m <= 2 THEN y - 1 ELSE y
        era == yy \div 400
        yoe == yy - era * 400
        mp  == IF m > 2 THEN m - 3 ELSE m + 9
        doy == (153 * mp + 2) \div 5 + d - 1
        doe == yoe * 365 + yoe \div 4 - yoe \div 100 + doy
    IN  era * 146097 + doe - 719468

\* the civil date [y, m, d] of a day count
CivilFromDays(z) ==
    LET zz  == z + 719468
        era == zz \div 146097
        doe == zz - era * 146097
        yoe == (doe - doe \div 1460 + doe \div 36524 - doe \div 146096) \div 365
        doy == doe - (365 * yoe + yoe \div 4 - yoe \div 100)
        mp  == (5 * doy + 2) \div 153
        dd  == doy - (153 * mp + 2) \div 5 + 1
        mm  == IF mp < 10 THEN mp + 3 ELSE mp - 9
        yy  == yoe + era * 400 + (IF mm <= 2 THEN 1 ELSE 0)
    IN  [y |-> yy, m |-> mm, d |-> dd]

\* pd.Timestamp(y-m-d hh:00) as a tick count; q is the quarter of the day
Timestamp(y, m, d, q) == DaysFromCivil(y, m, d) * TicksPerDay + q

DayOf(t) == t \div TicksPerDay
YearOf(t) == CivilFromDays(DayOf(t)).y
MonthOf(t) == CivilFromDays(DayOf(t)).m

\* Timestamp.normalize(): midnight of the same day
Normalize(t) == t - (t % TicksPerDay)

\* Timestamp.weekday(): Monday = 0 .. Sunday = 6 (1970-01-01 was a Thursday)
Weekday(t) == (DayOf(t) + 3) % 7

(* ---------------------------------------------------------------------- *)
(* Values: exact rationals, with a missing marker                          *)
(* ---------------------------------------------------------------------- *)
NaN == [nan |-> TRUE, num |-> 0, den |-> 1]

Abs(x) == IF x < 0 THEN -x ELSE x

RECURSIVE Gcd(_, _)
Gcd(a, b) == IF b = 0 THEN a ELSE Gcd(b, a % b)

\* the rational n/dn (dn > 0) in lowest terms
Rat(n, dn) ==
    LET g == Gcd(Abs(n), dn)
    IN  [nan |-> FALSE, num |-> n \div g, den |-> dn \div g]

Num(n) == [nan |-> FALSE, num |-> n, den |-> 1]

RatAdd(a, b) == Rat(a.num * b.den + b.num * a.den, a.den * b.den)

\* a + (b - a) * k / n, for 0 < k < n
Lerp(a, b, k, n) ==
    Rat(a.num * b.den * (n - k) + b.num * a.den * k, a.den * b.den * n)

(* ---------------------------------------------------------------------- *)
(* Series: a sequence of rows [t |-> tick, v |-> value], index sorted      *)
(* ---------------------------------------------------------------------- *)
Index(s) == [i \in 1..Len(s) |-> s[i].t]
Values(s) == [i \in 1..Len(s) |-> s[i].v]

IsSorted(s) == \A i \in 1..(Len(s) - 1) : s[i].t <= s[i + 1].t

EmptySeries == << >>

\* rows lo+1 .. hi of s (the 0-based half-open slice s[lo:hi])
Rows(s, lo, hi) == IF hi <= lo THEN EmptySeries ELSE SubSeq(s, lo + 1, hi)

(* ---------------------------------------------------------------------- *)
(* DataFrame.shift(periods): values move, the index stays                  *)
(* ---------------------------------------------------------------------- *)
ShiftWrong(s, n) ==
    [i \in 1..Len(s) |->
        [t |-> s[i].t,
         v |-> IF i + n >= 1 /\ i + n <= Len(s) THEN s[i + n].v ELSE NaN]]

Shift(s, n) ==
    [i \in 1..Len(s) |->
        [t |-> s[i].t,
         v |-> IF i - n >= 1 /\ i - n <= Len(s) THEN s[i - n].v ELSE NaN]]

(* ---------------------------------------------------------------------- *)
(* DatetimeIndex lookups.  Positions are 0-based, as in the notebook.      *)
(* ---------------------------------------------------------------------- *)
\* numpy searchsorted on a sorted index: insertion point of x
SearchLeft(idx, x) == Cardinality({i \in 1..Len(idx) : idx[i] < x})
SearchRight(idx, x) == Cardinality({i \in 1..Len(idx) : idx[i] <= x})

\* d.index[off]: a negative offset counts from the end
PositionLookupNoNegative(idx, off) ==
    IF off >= 0 /\ off < Len(idx)
    THEN [err |-> "", t |-> idx[off + 1]]
    ELSE [err |-> "IndexError", t |-> 0]

PositionLookup(idx, off) ==
    IF off >= 0 /\ off < Len(idx)
    THEN [err |-> "", t |-> idx[off + 1]]
    ELSE IF off < 0 /\ off >= -Len(idx)
    THEN [err |-> "", t |-> idx[Len(idx) + off + 1]]
    ELSE [err |-> "IndexError", t |-> 0]

\* d.index.get_loc(Timestamp) on a sorted index: the position of the one
\* match, the slice lo:hi of several matches, KeyError for none
ExactLookupLast(idx, ts) ==
    LET lo == SearchLeft(idx, ts)
        hi == SearchRight(idx, ts)
    IN  IF hi = lo THEN [err |-> "KeyError", lo |-> 0, hi |-> 0]
        ELSE [err |-> "", lo |-> hi - 1, hi |-> hi]

ExactLookup(idx, ts) ==
    LET lo == SearchLeft(idx, ts)
        hi == SearchRight(idx, ts)
    IN  IF hi = lo THEN [err |-> "KeyError", lo |-> 0, hi |-> 0]
        ELSE [err |-> "", lo |-> lo, hi |-> hi]

\* bounds of a partial date string: month = 0 is a year-only string
PartialFirst(y, m) == IF m = 0 THEN Timestamp(y, 1, 1, 0) ELSE Timestamp(y, m, 1, 0)
PartialLast(y, m) ==
    IF m = 0 THEN Timestamp(y, 12, 31, TicksPerDay - 1)
    ELSE Timestamp(y, m, DaysInMonth(y, m), TicksPerDay - 1)

\* partial string indexing on a sorted index: the slice lo:hi
PartialLookupOpenEnd(idx, y, m) ==
    LET t1 == PartialFirst(y, m)
        t2 == PartialLast(y, m)
        n  == Len(idx)
    IN  IF n > 0 /\ ((t1 < idx[1] /\ t2 < idx[1]) \/ (t1 > idx[n] /\ t2 > idx[n]))
        THEN [err |-> "KeyError", lo |-> 0, hi |-> 0]
        ELSE [err |-> "", lo |-> SearchLeft(idx, t1), hi |-> SearchLeft(idx, t2)]

PartialLookup(idx, y, m) ==
    LET t1 == PartialFirst(y, m)
        t2 == PartialLast(y, m)
        n  == Len(idx)
    IN  IF n > 0 /\ ((t1 < idx[1] /\ t2 < idx[1]) \/ (t1 > idx[n] /\ t2 > idx[n]))
        THEN [err |-> "KeyError", lo |-> 0, hi |-> 0]
        ELSE [err |-> "", lo |-> SearchLeft(idx, t1), hi |-> SearchRight(idx, t2)]

\* d['2017'], d.loc['2017-02']: the rows of the partial match
Slice(s, y, m) ==
    LET r == PartialLookup(Index(s), y, m)
    IN  IF r.err # "" THEN [err |-> r.err, out |-> EmptySeries]
        ELSE [err |-> "", out |-> Rows(s, r.lo, r.hi)]

(* ---------------------------------------------------------------------- *)
(* Resampling.  A frequency is [kind |-> "tick", n |-> width in ticks]     *)
(* ('6h', '12h', '1d', '3d', '7d') or [kind |-> "week", n |-> one week]    *)
(* ('1w': weeks ending on Sunday, closed and labelled on the right).       *)
(* ---------------------------------------------------------------------- *)
TickFreq(n) == [kind |-> "tick", n |-> n]
WeekFreq == [kind |-> "week", n |-> 7 * TicksPerDay]

\* a slip: the grid anchored at the epoch
FirstEdgeEpoch(s, w) == s[1].t - (s[1].t % w)

\* first bin edge of a tick frequency: the first timestamp moved back onto
\* the grid of width w anchored at midnight of the first timestamp's day

FirstEdge(s, w) == s[1].t - ((s[1].t - Normalize(s[1].t)) % w)

\* a slip: no bin is opened for a last timestamp that lies on the grid
LastEdgeInclusive(s, w) ==
    LET last == s[Len(s)].t
        loff == (last - Normalize(s[1].t)) % w
    IN  IF loff > 0 THEN last + (w - loff) ELSE last

\* last bin edge: the first grid point strictly after the last timestamp
LastEdge(s, w) ==
    LET last == s[Len(s)].t
        loff == (last - Normalize(s[1].t)) % w
    IN  IF loff > 0 THEN last + (w - loff) ELSE last + w

\* the label of the weekly bin of t: midnight of the Sunday on or after t
WeekLabel(t) == Normalize(t) + ((6 - Weekday(t)) % 7) * TicksPerDay

\* number of bins of s at frequency f
NumBins(s, f) ==
    IF Len(s) = 0 THEN 0
    ELSE IF f.kind = "tick"
    THEN (LastEdge(s, f.n) - FirstEdge(s, f.n)) \div f.n
    ELSE (WeekLabel(s[Len(s)].t) - WeekLabel(s[1].t)) \div f.n + 1

\* label of bin k (0-based)
BinLabel(s, f, k) ==
    IF f.kind = "tick" THEN FirstEdge(s, f.n) + k * f.n
    ELSE WeekLabel(s[1].t) + k * f.n

\* a slip: bins closed on the right for every frequency
BinOfRightClosed(s, f, t) ==
    IF f.kind = "tick" THEN (t - FirstEdge(s, f.n) + f.n - 1) \div f.n
    ELSE (WeekLabel(t) - WeekLabel(s[1].t)) \div f.n

\* the bin (0-based) a timestamp of s falls in
BinOf(s, f, t) ==
    IF f.kind = "tick" THEN (t - FirstEdge(s, f.n)) \div f.n
    ELSE (WeekLabel(t) - WeekLabel(s[1].t)) \div f.n

\* sum of the non-missing values of rows i..Len(s) of s that fall in bin k,
\* added to acc; acc is NaN while no value has been seen
RECURSIVE BinSum(_, _, _, _, _)
BinSum(s, f, k, i, acc) ==
    IF i > Len(s) THEN acc
    ELSE IF BinOf(s, f, s[i].t) # k \/ s[i].v.nan THEN BinSum(s, f, k, i + 1, acc)
    ELSE BinSum(s, f, k, i + 1, IF acc.nan THEN s[i].v ELSE RatAdd(acc, s[i].v))

\* a slip: an empty bin sums to 0
EmptyBinZero(s, f, k) == BinSum(s, f, k, 1, Num(0))

BinTotal(s, f, k) == BinSum(s, f, k, 1, NaN)

\* a slip: grouping by bucket, which leaves out the buckets without a value
ResampleSumDropEmpty(s, f) ==
    SelectSeq([j \in 1..NumBins(s, f) |->
                  [t |-> BinLabel(s, f, j - 1), v |-> BinTotal(s, f, j - 1)]],
              LAMBDA r : ~r.v.nan)

\* d.resample(f).sum()
ResampleSum(s, f) ==
    [j \in 1..NumBins(s, f) |->
        [t |-> BinLabel(s, f, j - 1), v |-> BinTotal(s, f, j - 1)]]

\* DatetimeIndex.inferred_freq as a tick width: the common spacing of an
\* index of at least three timestamps, 0 (None) when there is none or when
\* the spacing is whole weeks (inferred as the anchored 'W-...', never a tick)
InferredFreq(s) ==
    IF Len(s) < 3 THEN 0
    ELSE LET dt == s[2].t - s[1].t
         IN  IF dt > 0 /\ (\A i \in 1..(Len(s) - 1) : s[i + 1].t - s[i].t = dt)
                /\ dt % (7 * TicksPerDay) # 0
             THEN dt ELSE 0

HasDuplicates(s) == \E i \in 1..(Len(s) - 1) : s[i].t = s[i + 1].t

\* value of the row of s at timestamp t, NaN when there is none
ValueAt(s, t) ==
    IF \E i \in 1..Len(s) : s[i].t = t
    THEN s[CHOOSE i \in 1..Len(s) : s[i].t = t].v
    ELSE NaN

\* Resampler._upsample(None): the source on the new grid.  A source already
\* at the target frequency is relabelled; otherwise it is reindexed, which
\* keeps only the rows whose timestamp is a grid point
Upsample(s, w) ==
    LET f == TickFreq(w)
    IN  IF Len(s) = 0 THEN [err |-> "", out |-> EmptySeries]
        ELSE IF InferredFreq(s) = w
        THEN [err |-> "",
              out |-> [j \in 1..Len(s) |-> [t |-> BinLabel(s, f, j - 1), v |-> s[j].v]]]
        ELSE IF HasDuplicates(s)
        THEN [err |-> "ValueError", out |-> EmptySeries]
        ELSE [err |-> "",
              out |-> [j \in 1..NumBins(s, f) |->
                          [t |-> BinLabel(s, f, j - 1),
                           v |-> ValueAt(s, BinLabel(s, f, j - 1))]]]

\* positions of the nearest known value before / after position j (0: none)
PrevKnown(g, j) ==
    LET c == {i \in 1..(j - 1) : ~g[i].v.nan}
    IN  IF c = {} THEN 0 ELSE CHOOSE i \in c : \A k \in c : k <= i
NextKnown(g, j) ==
    LET c == {i \in (j + 1)..Len(g) : ~g[i].v.nan}
    IN  IF c = {} THEN 0 ELSE CHOOSE i \in c : \A k \in c : i <= k

\* DataFrame.interpolate('linear'), limit_direction = 'forward': rows are
\* equally spaced; gaps after the last known value take that value
InterpolateNearest(g) ==
    [j \in 1..Len(g) |->
        IF ~g[j].v.nan THEN g[j]
        ELSE IF PrevKnown(g, j) = 0 THEN g[j]
        ELSE [t |-> g[j].t, v |-> g[PrevKnown(g, j)].v]]

InterpolateLinear(g) ==
    [j \in 1..Len(g) |->
        IF ~g[j].v.nan THEN g[j]
        ELSE LET p == PrevKnown(g, j)
                 n == NextKnown(g, j)
             IN  IF p = 0 THEN g[j]
                 ELSE IF n = 0 THEN [t |-> g[j].t, v |-> g[p].v]
                 ELSE [t |-> g[j].t, v |-> Lerp(g[p].v, g[n].v, j - p, n - p)]]

\* d.resample(w).interpolate('linear')
ResampleInterpolate(s, w) ==
    LET u == Upsample(s, w)
    IN  IF u.err # "" THEN u ELSE [err |-> "", out |-> InterpolateLinear(u.out)]

(* ---------------------------------------------------------------------- *)
(* pd.to_datetime(sequence), errors = 'raise'.  A token is the calendar    *)
(* fields [y, m, d] read from the text; text that is no date has m = 0.    *)
(* ---------------------------------------------------------------------- *)
Parses(tok) ==
    tok.m >= 1 /\ tok.m <= 12 /\ tok.d >= 1 /\ tok.d <= DaysInMonth(tok.y, tok.m)

ParseToken(tok) == Timestamp(tok.y, tok.m, tok.d, 0)

\* parses the tokens from position i on, appending to acc; stops at the
\* first token that does not parse
RECURSIVE ParseFrom(_, _, _)
ParseFrom(toks, i, acc) ==
    IF i > Len(toks) THEN [err |-> "", out |-> acc]
    ELSE IF ~Parses(toks[i]) THEN [err |-> "ParseError", out |-> << >>]
    ELSE ParseFrom(toks, i + 1, Append(acc, ParseToken(toks[i])))

\* errors = 'coerce'-like slip: keep what parsed, drop the rest
RECURSIVE ParseKeepGood(_, _, _)
ParseKeepGood(toks, i, acc) ==
    IF i > Len(toks) THEN [err |-> "", out |-> acc]
    ELSE IF ~Parses(toks[i]) THEN ParseKeepGood(toks, i + 1, acc)
    ELSE ParseKeepGood(toks, i + 1, Append(acc, ParseToken(toks[i])))

ToDatetimeCoerce(toks) == ParseKeepGood(toks, 1, << >>)

ToDatetime(toks) == ParseFrom(toks, 1, << >>)

(* ---------------------------------------------------------------------- *)
(* State of the notebook session                                           *)
(* ---------------------------------------------------------------------- *)
VARIABLES
    d,      \* the frame bound to the name d: rows [t, v], index sorted
    cur,    \* the latest derived frame (as rs in the last cell)
    steps,  \* how many operations cur is away from d
    last    \* the latest call: its operation, arguments and result

vars == <<d, cur, steps, last>>

\* instants the inputs are drawn from: 2016-12-31 18:00 .. 2017-01-02 00:00
FirstStamp == Timestamp(2016, 12, 31, 3)
LastStamp == Timestamp(2017, 1, 2, 0)
Stamps == FirstStamp..LastStamp

Vals == {Num(10), Num(20), NaN}

Lengths == 1..MaxLen

SortedIndexes(n) ==
    {ix \in [1..n -> Stamps] : \A i \in 1..(n - 1) : ix[i] <= ix[i + 1]}

MakeSeries(ix, vs) == [i \in 1..Len(ix) |-> [t |-> ix[i], v |-> vs[i]]]

\* daily points 2017-01-01 .. 2017-01-10, each valued 1
ExampleDaily ==
    [i \in 1..10 |-> [t |-> Timestamp(2017, 1, i, 0), v |-> Num(1)]]

\* daily points 2017-01-31 .. 2017-02-02 valued 10, 20, 40
MonthEdge ==
    <<[t |-> Timestamp(2017, 1, 31, 0), v |-> Num(10)],
      [t |-> Timestamp(2017, 2, 1, 0), v |-> Num(20)],
      [t |-> Timestamp(2017, 2, 2, 0), v |-> Num(40)]>>

\* irregular points around the new year, one timestamp twice, one value missing
Irregular ==
    <<[t |-> Timestamp(2016, 12, 31, 3), v |-> Num(10)],
      [t |-> Timestamp(2017, 1, 1, 1), v |-> NaN],
      [t |-> Timestamp(2017, 1, 1, 1), v |-> Num(20)],
      [t |-> Timestamp(2017, 1, 3, 0), v |-> Num(40)]>>

\* the frames a session reads from file
SessionFrames == {ExampleDaily, MonthEdge, Irregular}

Freqs ==
    {TickFreq(Freq6h), TickFreq(Freq12h), TickFreq(Freq1d), TickFreq(Freq3d),
     TickFreq(Freq7d), WeekFreq}

TickWidths == {Freq6h, Freq12h, Freq1d, Freq3d, Freq7d}

Shifts == (-MaxShift)..MaxShift

\* partial date strings '2016', '2016-12', '2017', '2017-01', '2017-02', '2018'
Partials ==
    {<<2016, 0>>, <<2016, 12>>, <<2017, 0>>, <<2017, 1>>, <<2017, 2>>, <<2018, 0>>}

\* date texts: '2016-01-01', '2017-01-02', '2017-02-30', 'not-a-date'
Tokens ==
    {[y |-> 2016, m |-> 1, d |-> 1], [y |-> 2017, m |-> 1, d |-> 2],
     [y |-> 2017, m |-> 2, d |-> 30], [y |-> 0, m |-> 0, d |-> 0]}

NoCall ==
    [op |-> "none", src |-> EmptySeries, a |-> 0, b |-> 0, f |-> TickFreq(0),
     toks |-> << >>, err |-> "", out |-> EmptySeries, index |-> << >>,
     lo |-> 0, hi |-> 0, t |-> 0]

Source(which) == IF which = "d" THEN d ELSE cur

\* an operation on cur is allowed while the chain is short
CanUse(which) == which = "d" \/ (steps >= 1 /\ steps < MaxChain)

Depth(which) == IF which = "d" THEN 1 ELSE steps + 1

TypeOK ==
    /\ IsSorted(d)
    /\ steps \in 0..MaxChain
    /\ last.op \in {"none", "read_csv", "shift", "sum", "interpolate", "slice",
                    "get_loc", "position", "partial", "to_datetime"}

InitWide ==
    /\ \/ \E n \in Lengths : \E ix \in SortedIndexes(n) : \E vs \in [1..n -> Vals] :
            d = MakeSeries(ix, vs)
       \/ d = ExampleDaily
    /\ cur = d
    /\ steps = 0
    /\ last = NoCall

InitIndex ==
    /\ \E n \in Lengths : \E ix \in SortedIndexes(n) :
            d = MakeSeries(ix, [i \in 1..n |-> Num(10 * i)])
    /\ cur = d
    /\ steps = 0
    /\ last = NoCall

Init ==
    /\ d \in SessionFrames
    /\ cur = d
    /\ steps = 0
    /\ last = NoCall

(* ---------------------------------------------------------------------- *)
(* Operations                                                              *)
(* ---------------------------------------------------------------------- *)
Call(op, src) == [NoCall EXCEPT !.op = op, !.src = src]

\* d = pd.read_csv(...).set_index('date'): d is bound to a fresh frame
ReadCsv ==
    /\ d' \in SessionFrames
    /\ cur' = d'
    /\ steps' = 0
    /\ last' = Call("read_csv", d')

\* a slip: shift that writes the moved values back into its source
DoShiftInPlace(which, n) ==
    /\ CanUse(which)
    /\ d' = Shift(Source(which), n)
    /\ cur' = Shift(Source(which), n)
    /\ steps' = Depth(which)
    /\ last' = [Call("shift", Source(which)) EXCEPT !.a = n, !.out = cur']

\* d.shift(n)
DoShift(which, n) ==
    /\ CanUse(which)
    /\ cur' = Shift(Source(which), n)
    /\ steps' = Depth(which)
    /\ last' = [Call("shift", Source(which)) EXCEPT !.a = n, !.out = cur']
    /\ d' = d

\* d.resample(f).sum()
DoResampleSum(which, f) ==
    /\ CanUse(which)
    /\ cur' = ResampleSum(Source(which), f)
    /\ steps' = Depth(which)
    /\ last' = [Call("sum", Source(which)) EXCEPT !.f = f, !.out = cur']
    /\ d' = d

\* d.resample(w).interpolate('linear')
DoInterpolate(which, w) ==
    LET r == ResampleInterpolate(Source(which), w)
    IN  /\ CanUse(which)
        /\ cur' = IF r.err = "" THEN r.out ELSE cur
        /\ steps' = IF r.err = "" THEN Depth(which) ELSE steps
        /\ last' = [Call("interpolate", Source(which)) EXCEPT
                        !.f = TickFreq(w), !.err = r.err, !.out = r.out]
        /\ d' = d

\* d['2017'], d.loc['2017-02']
DoSlice(which, y, m) ==
    LET r == Slice(Source(which), y, m)
    IN  /\ CanUse(which)
        /\ cur' = IF r.err = "" THEN r.out ELSE cur
        /\ steps' = IF r.err = "" THEN Depth(which) ELSE steps
        /\ last' = [Call("slice", Source(which)) EXCEPT
                        !.a = y, !.b = m, !.err = r.err, !.out = r.out]
        /\ d' = d

\* d.index.get_loc(ts), the lookup behind d.loc[ts]
DoExactLookup(ts) ==
    LET r == ExactLookup(Index(d), ts)
    IN  /\ last' = [Call("get_loc", d) EXCEPT
                        !.t = ts, !.err = r.err, !.lo = r.lo, !.hi = r.hi]
        /\ UNCHANGED <<d, cur, steps>>

\* d.index[off], the lookup behind d.iloc[off]
DoPositionLookup(off) ==
    LET r == PositionLookup(Index(d), off)
    IN  /\ last' = [Call("position", d) EXCEPT !.a = off, !.err = r.err, !.t = r.t]
        /\ UNCHANGED <<d, cur, steps>>

\* the position range behind d['2017'] and d.loc['2017-02']
DoPartialLookup(y, m) ==
    LET r == PartialLookup(Index(d), y, m)
    IN  /\ last' = [Call("partial", d) EXCEPT
                        !.a = y, !.b = m, !.err = r.err, !.lo = r.lo, !.hi = r.hi]
        /\ UNCHANGED <<d, cur, steps>>

\* pd.to_datetime(column)
DoToDatetime(toks) ==
    LET r == ToDatetime(toks)
    IN  /\ last' = [Call("to_datetime", d) EXCEPT
                        !.toks = toks, !.err = r.err, !.index = r.out]
        /\ UNCHANGED <<d, cur, steps>>

TokenSeqs == UNION {[1..n -> Tokens] : n \in Lengths}

Offsets == (-(MaxLen + 1))..(MaxLen + 1)

\* the session: frames derived from d and from one another
Next ==
    \/ ReadCsv
    \/ \E which \in {"d", "cur"} :
        \/ \E n \in Shifts : DoShift(which, n)
        \/ \E f \in Freqs : DoResampleSum(which, f)
        \/ \E w \in TickWidths : DoInterpolate(which, w)
        \/ \E p \in Partials : DoSlice(which, p[1], p[2])

Spec == Init /\ [][Next]_vars

\* no call has been made on d yet
Fresh == last = NoCall

\* one shift or resample call on each small frame
NextSeries ==
    \/ \E n \in Shifts : Fresh /\ DoShift("d", n)
    \/ \E f \in Freqs : Fresh /\ DoResampleSum("d", f)
    \/ \E w \in TickWidths : Fresh /\ DoInterpolate("d", w)

SpecSeries == InitWide /\ [][NextSeries]_vars

\* one index construction or lookup on each small index
NextIndex ==
    \/ \E ts \in Stamps : Fresh /\ DoExactLookup(ts)
    \/ \E off \in Offsets : Fresh /\ DoPositionLookup(off)
    \/ \E p \in Partials : Fresh /\ DoPartialLookup(p[1], p[2])
    \/ \E p \in Partials : Fresh /\ DoSlice("d", p[1], p[2])
    \/ \E toks \in TokenSeqs : Fresh /\ DoToDatetime(toks)

SpecIndex == InitIndex /\ [][NextIndex]_vars

(* ---------------------------------------------------------------------- *)
(* Properties                                                              *)
(* ---------------------------------------------------------------------- *)
\* positions of the rows of s with lo <= t < hi
RowsIn(s, lo, hi) == {i \in 1..Len(s) : lo <= s[i].t /\ s[i].t < hi}

Known(s, P) == {i \in P : ~s[i].v.nan}

RECURSIVE SumRows(_, _)
SumRows(s, P) ==
    IF P = {} THEN Num(0)
    ELSE LET i == CHOOSE j \in P : TRUE
         IN  RatAdd(s[i].v, SumRows(s, P \ {i}))

SumCall == last.op = "sum" /\ last.f.kind = "tick" /\ Len(last.src) > 0

\* C1: downsampling with sum.  For a non-empty sorted frame and a fixed
\* bucket width w, the buckets of resample(w).sum() start at e0, e0 + w, ...
\* (e0 the first bucket edge), and every bucket that holds a source value is
\* the sum of the (non-missing) source values with e0 + k*w <= t < e0 + (k+1)*w.
\* The daily points 2017-01-01 .. 2017-01-10 valued 1 give, at '7d', exactly
\* the buckets 2017-01-01 -> 7 and 2017-01-08 -> 3.
C1_DownsampleSum ==
    SumCall =>
        LET s  == last.src
            w  == last.f.n
            o  == last.out
            e0 == o[1].t
        IN  /\ Len(o) >= 1
            /\ \A k \in 1..Len(o) :
                LET P == Known(s, RowsIn(s, e0 + (k - 1) * w, e0 + k * w))
                IN  /\ o[k].t = e0 + (k - 1) * w
                    /\ P # {} => o[k].v = SumRows(s, P)
            /\ (s = ExampleDaily /\ w = Freq7d) =>
                    o = <<[t |-> Timestamp(2017, 1, 1, 0), v |-> Num(7)],
                          [t |-> Timestamp(2017, 1, 8, 0), v |-> Num(3)]>>

C1_Witness ==
    /\ SumCall
    /\ last.src = ExampleDaily
    /\ last.f.n = Freq7d
    /\ Len(last.out) = 2

\* the index of s is regularly spaced at width w
Regular(s, w) == \A i \in 1..(Len(s) - 1) : s[i + 1].t - s[i].t = w

C3_ShiftRoundTrip ==
    last.op = "shift" =>
        LET s == last.src
            n == last.a
            o == last.out
            L == Len(s)
            r == Shift(o, -n)
        IN  /\ Index(o) = Index(s)
            /\ \A i \in 1..L :
                /\ ((n > 0 /\ i <= n) \/ (n < 0 /\ i > L + n)) => o[i].v = NaN
                /\ ~((n > 0 /\ i <= n) \/ (n < 0 /\ i > L + n)) => o[i].v = s[i - n].v
            /\ Index(r) = Index(s)
            /\ \A p \in 0..(L - 1) :
                r[p + 1].v = IF p + n >= 0 /\ p + n < L THEN s[p + 1].v ELSE NaN

C3_Witness ==
    /\ last.op = "shift"
    /\ last.a = -1
    /\ Len(last.src) = 3
    /\ \A i \in 1..3 : ~last.src[i].v.nan
    /\ last.src[1].v # last.src[2].v
    /\ last.out[3].v = NaN
    /\ Shift(last.out, 1)[1].v = NaN
    /\ Shift(last.out, 1)[2].v = last.src[2].v

\* the partial date string y (m = 0) or y-m matches timestamp t
Matches(y, m, t) == YearOf(t) = y /\ (m = 0 \/ MonthOf(t) = m)

PositionsOf(ix, t) == {p \in 0..(Len(ix) - 1) : ix[p + 1] = t}

\* the position a valid offset denotes
Position(ix, off) == IF off >= 0 THEN off ELSE Len(ix) + off

ValidOffset(ix, off) == off >= -Len(ix) /\ off < Len(ix)

\* C5 as stated: for every index, duplicates included, and every valid
\* position p, exact_lookup(position_lookup(p)) returns p.
C5_RoundTripAsStated ==
    (last.op = "position" /\ ValidOffset(Index(last.src), last.a)) =>
        LET ix == Index(last.src)
            p  == Position(ix, last.a)
        IN  ExactLookup(ix, last.t) = [err |-> "", lo |-> p, hi |-> p + 1]

\* C5, amended: position_lookup accepts the offsets -L .. L-1 (negative ones
\* counted from the end) and fails with IndexError outside that range;
\* exact_lookup fails with KeyError for an absent timestamp and otherwise
\* returns exactly the positions holding the timestamp.  So
\* exact_lookup(position_lookup(p)) returns p when the timestamp at p occurs
\* once, and the range of all its positions, which contains p, when the
\* index holds it more than once.
C5_LookupRoundTrip ==
    /\ last.op = "position" =>
        LET ix == Index(last.src)
            p  == Position(ix, last.a)
            r  == ExactLookup(ix, last.t)
        IN  IF ValidOffset(ix, last.a)
            THEN /\ last.err = ""
                 /\ last.t = ix[p + 1]
                 /\ r.err = ""
                 /\ PositionsOf(ix, last.t) = {q \in 0..(Len(ix) - 1) : r.lo <= q /\ q < r.hi}
                 /\ p \in PositionsOf(ix, last.t)
                 /\ Cardinality(PositionsOf(ix, last.t)) = 1 => (r.lo = p /\ r.hi = p + 1)
            ELSE last.err = "IndexError"
    /\ last.op = "get_loc" =>
        LET ix == Index(last.src)
        IN  /\ (PositionsOf(ix, last.t) = {}) <=> (last.err = "KeyError")
            /\ last.err # "KeyError" =>
                /\ last.err = ""
                /\ PositionsOf(ix, last.t) =
                        {q \in 0..(Len(ix) - 1) : last.lo <= q /\ q < last.hi}

C5_Witness ==
    /\ last.op = "position"
    /\ last.a = -1
    /\ last.err = ""
    /\ Len(last.src) = 3
    /\ ExactLookup(Index(last.src), last.t) = [err |-> "", lo |-> 1, hi |-> 3]

\* C6: no operation mutates its source.  Every step of a session that is a
\* shift, a slice, or a resample followed by sum or interpolate, applied to d
\* or to a frame derived from it, leaves the index and values of d as they
\* were.
C6_SourceNotMutated ==
    [][last'.op \in {"shift", "slice", "sum", "interpolate"} => d' = d]_vars

C6_Witness ==
    /\ steps = 2
    /\ last.op = "interpolate"
    /\ last.src # d
    /\ Len(cur) > Len(d)
    /\ d = ExampleDaily

\* positions of the rows of s that fall in the bucket labelled lab
Holds(s, f, lab) ==
    IF f.kind = "tick" THEN RowsIn(s, lab, lab + f.n)
    ELSE {i \in 1..Len(s) : lab - f.n < Normalize(s[i].t) /\ Normalize(s[i].t) <= lab}

\* C7: every bucket of resample(f).sum() that holds no source point is kept
\* in the output (the labels are consecutive, one bucket width apart) and
\* carries the missing marker, not 0; a bucket holding exactly one source
\* point carries that point's value.  A daily frame upsampled to six hours
\* has its values at the midnights and the missing marker in between.
C7_EmptyBucketMissing ==
    (last.op = "sum" /\ Len(last.src) > 0) =>
        LET s == last.src
            f == last.f
            o == last.out
        IN  \A k \in 1..Len(o) :
                /\ k > 1 => o[k].t = o[k - 1].t + f.n
                /\ Holds(s, f, o[k].t) = {} => o[k].v = NaN
                /\ \A i \in 1..Len(s) : Holds(s, f, o[k].t) = {i} => o[k].v = s[i].v

C7_Witness ==
    /\ last.op = "sum"
    /\ last.src = ExampleDaily
    /\ last.f = TickFreq(Freq6h)
    /\ Len(last.out) = 37
    /\ last.out[1].v = Num(1)
    /\ last.out[2].v = NaN
    /\ last.out[37].v = Num(1)

InterpolateCall ==
    last.op = "interpolate" /\ last.err = "" /\ Len(last.src) > 0

\* t moved back onto the grid of width w anchored at midnight of the first
\* timestamp's day
Back(s, w, t) == t - ((t - Normalize(s[1].t)) % w)

\* v is the average of a and b weighted by the distances k from a, n - k from b
IsWeighted(v, a, b, k, n) ==
    /\ ~v.nan
    /\ v.num * a.den * b.den * n = v.den * (a.num * b.den * (n - k) + b.num * a.den * k)

\* o is g with its gaps filled: linear between known neighbours, missing
\* before the first known value, and fill(p) after the last known value at p
Filled(o, g, fill(_)) ==
    /\ Len(o) = Len(g)
    /\ \A k \in 1..Len(g) :
        LET P == {j \in 1..(k - 1) : ~g[j].nan}
            N == {j \in (k + 1)..Len(g) : ~g[j].nan}
            p == CHOOSE j \in P : \A i \in P : i <= j
            n == CHOOSE j \in N : \A i \in N : j <= i
        IN  IF ~g[k].nan THEN o[k].v = g[k]
            ELSE IF P = {} THEN o[k].v = NaN
            ELSE IF N = {} THEN o[k].v = fill(p)
            ELSE IsWeighted(o[k].v, g[p], g[n], k - p, n - p)

C9_AllOrNothing ==
    last.op = "to_datetime" =>
        IF \E i \in 1..Len(last.toks) : ~Parses(last.toks[i])
        THEN last.err = "ParseError" /\ last.index = << >>
        ELSE /\ last.err = ""
             /\ Len(last.index) = Len(last.toks)
             /\ \A i \in 1..Len(last.toks) : last.index[i] = ParseToken(last.toks[i])

C9_Witness ==
    /\ last.op = "to_datetime"
    /\ Len(last.toks) = 2
    /\ Parses(last.toks[1])
    /\ ~Parses(last.toks[2])
    /\ last.err = "ParseError"
    /\ last.index = << >>

\* t floored to a multiple of w counted from the epoch
EpochFloor(t, w) == (t \div w) * w

\* the output labels start at first, are w apart, cover the last source
\* timestamp, and every source row lies in exactly one bucket, the one
\* labelled start(t)
Bucketed(s, w, o, first, start(_)) ==
    /\ Len(o) >= 1
    /\ o[1].t = first
    /\ \A k \in 2..Len(o) : o[k].t = o[k - 1].t + w
    /\ o[Len(o)].t <= s[Len(s)].t /\ s[Len(s)].t < o[Len(o)].t + w
    /\ \A i \in 1..Len(s) :
        /\ Cardinality({k \in 1..Len(o) : o[k].t <= s[i].t /\ s[i].t < o[k].t + w}) = 1
        /\ \E k \in 1..Len(o) : o[k].t = start(s[i].t)
        /\ start(s[i].t) <= s[i].t /\ s[i].t < start(s[i].t) + w

Spaced(s, w) == \A k \in 2..Len(s) : s[k].t = s[k - 1].t + w

\* C11: every frame of a session, d and each frame derived from it by any
\* sequence of shift(n), slice by partial string, and resample(f) followed by
\* sum or interpolate, has as many index entries as values and a sorted
\* index.  shift keeps the length and the index; a slice is never longer than
\* its source; a resample result has strictly increasing index entries
\* exactly one bucket width apart, and a source already at the target
\* frequency gets exactly as many bucket labels as it has values.
C11_WellFormedSeries ==
    /\ IsSorted(d) /\ IsSorted(cur) /\ IsSorted(last.src) /\ IsSorted(last.out)
    /\ Len(Index(cur)) = Len(Values(cur))
    /\ Len(Index(last.out)) = Len(Values(last.out))
    /\ last.op = "shift" =>
        Len(last.out) = Len(last.src) /\ Index(last.out) = Index(last.src)
    /\ last.op = "slice" =>
        /\ Len(last.out) <= Len(last.src)
        /\ \A i \in 1..Len(last.out) : \E j \in 1..Len(last.src) : last.out[i] = last.src[j]
    /\ (last.op \in {"sum", "interpolate"} /\ last.err = "") =>
        /\ last.f.n > 0
        /\ Spaced(last.out, last.f.n)
        /\ Len(last.src) > 0 => Len(last.out) = NumBins(last.src, last.f)
    /\ (last.op = "interpolate" /\ InferredFreq(last.src) = last.f.n) =>
        NumBins(last.src, last.f) = Len(last.src)

C11_Witness ==
    /\ steps = 2
    /\ last.op = "sum"
    /\ last.f = TickFreq(Freq12h)
    /\ d = Irregular
    /\ last.src # d
    /\ Len(last.src) < Len(d)
    /\ Len(last.out) > Len(last.src)
    /\ \E k \in 1..Len(last.out) : last.out[k].v.nan

====
